---- MODULE Spec2Model ----
(***************************************************************************)
(* Model of voskjshttp.js: the HTTP JSON server in front of the Vosk       *)
(* engine.  One request is one slot of `conn`; every action is one         *)
(* synchronous run of JavaScript between two suspension points (the        *)
(* arrival of a request, a 'data' or 'end' event of its body stream, the   *)
(* settlement of the engine promise, a signal).                            *)
(*                                                                         *)
(* Text is a sequence of fragments.  A fragment is a piece of a string;    *)
(* the double quote and the backslash are always fragments of their own,   *)
(* so that interpolation, JSON.stringify and JSON.parse can be modelled by *)
(* what they do to those two characters.                                   *)
(***************************************************************************)
EXTENDS Integers, Sequences, FiniteSets, TLC

\* ------------------------------------------------------------------ bounds
\* number of request slots of the concurrent specification
NReq == 2
\* number of bytes a client sends at most in a POST body
MaxBody == 2
\* millisecond timestamps unixTimeMsecs() may return
MaxTime == 2

Requests == 1..NReq
Times == 1..MaxTime

\* ------------------------------------------------------------------- text
QUOTE == "\""
BSLASH == "\\"

\* a query-string argument as url.parse(req.url, true).query gives it:
\* undefined when absent, a string (possibly empty) when present
Absent == [present |-> FALSE, v |-> <<>>]
Param(t) == [present |-> TRUE, v |-> t]

\* JavaScript truthiness of a query argument: undefined and '' are falsy
Truthy(p) == p.present /\ p.v # <<>>

\* a JSON scalar: a string or a number (a number's text is its digits)
Str(t) == [kind |-> "str", text |-> t]
Num(n) == [kind |-> "num", text |-> <<ToString(n)>>]
\* a fragment that is the text of a number
NumberToken(x) == \E n \in 0..9 : x = ToString(n)

\* `${value}` inside a template literal
TemplateText(scalar) == scalar.text

RECURSIVE Escape(_)
\* the escaping JSON.stringify applies to a string
Escape(t) ==
  IF t = <<>> THEN <<>>
  ELSE (IF Head(t) \in {QUOTE, BSLASH} THEN <<BSLASH, Head(t)>> ELSE <<Head(t)>>)
       \o Escape(Tail(t))

RECURSIVE Unescape(_)
\* what JSON.parse makes of the inside of a string literal
Unescape(t) ==
  IF t = <<>> THEN <<>>
  ELSE IF Head(t) = BSLASH /\ Len(t) >= 2
       THEN <<t[2]>> \o Unescape(Tail(Tail(t)))
       ELSE <<Head(t)>> \o Unescape(Tail(t))

JsonStringifyValue(scalar) ==
  IF scalar.kind = "num" THEN scalar.text
  ELSE <<QUOTE>> \o Escape(scalar.text) \o <<QUOTE>>

RECURSIVE JsonMembers(_)
JsonMembers(o) ==
  IF o = <<>> THEN <<>>
  ELSE <<QUOTE>> \o Escape(<<o[1].key>>) \o <<QUOTE, ":">>
       \o JsonStringifyValue(o[1].val)
       \o (IF Len(o) > 1 THEN <<",">> ELSE <<>>)
       \o JsonMembers(Tail(o))

\* JSON.stringify of an object whose values are scalars; an object is the
\* sequence of its members in insertion order
JsonStringify(o) == <<"{">> \o JsonMembers(o) \o <<"}">>

RECURSIVE StringClose(_, _)
\* index of the quote that closes a string literal whose inside starts at i,
\* 0 when the literal is not closed or holds a bad escape
StringClose(t, i) ==
  IF i > Len(t) THEN 0
  ELSE IF t[i] = QUOTE THEN i
  ELSE IF t[i] = BSLASH
       THEN (IF i + 1 <= Len(t) /\ t[i + 1] \in {QUOTE, BSLASH}
             THEN StringClose(t, i + 2) ELSE 0)
       ELSE StringClose(t, i + 1)

ParseFail == [ok |-> FALSE, obj |-> <<>>]

RECURSIVE ParseMembers(_, _, _)
ParseMembers(t, i, acc) ==
  LET k == IF i <= Len(t) /\ t[i] = QUOTE THEN StringClose(t, i + 1) ELSE 0
  IN IF k = 0 \/ k + 2 > Len(t) THEN ParseFail
     ELSE IF t[k + 1] # ":" THEN ParseFail
     ELSE
       LET vstart == k + 2
           isStr == t[vstart] = QUOTE
           vclose == IF isStr THEN StringClose(t, vstart + 1)
                     ELSE IF NumberToken(t[vstart]) THEN vstart ELSE 0
       IN IF vclose = 0 \/ vclose + 1 > Len(t) THEN ParseFail
          ELSE
            LET member == IF isStr
                       THEN Str(Unescape(SubSeq(t, vstart + 1, vclose - 1)))
                       ELSE [kind |-> "num", text |-> <<t[vstart]>>]
                acc2 == Append(acc, [name |-> Unescape(SubSeq(t, i + 1, k - 1)),
                                     value |-> member])
            IN IF t[vclose + 1] = "}"
               THEN (IF vclose + 1 = Len(t) THEN [ok |-> TRUE, obj |-> acc2]
                     ELSE ParseFail)
               ELSE IF t[vclose + 1] = ","
                    THEN ParseMembers(t, vclose + 2, acc2)
                    ELSE ParseFail

\* what a client's JSON.parse makes of a response body: the members of the
\* object (name and scalar value, in order), or a failure
JsonParseObject(t) ==
  IF Len(t) < 2 THEN ParseFail
  ELSE IF t[1] # "{" THEN ParseFail
  ELSE IF t[2] = "}" THEN (IF Len(t) = 2 THEN [ok |-> TRUE, obj |-> <<>>] ELSE ParseFail)
  ELSE ParseMembers(t, 2, <<>>)

RECURSIVE ParseElems(_, _, _)
ParseElems(t, i, acc) ==
  LET c == IF i <= Len(t) /\ t[i] = QUOTE THEN StringClose(t, i + 1) ELSE 0
  IN IF c = 0 \/ c + 1 > Len(t) THEN [ok |-> FALSE, list |-> <<>>]
     ELSE
       LET acc2 == Append(acc, Unescape(SubSeq(t, i + 1, c - 1)))
       IN IF t[c + 1] = "]"
          THEN (IF c + 1 = Len(t) THEN [ok |-> TRUE, list |-> acc2]
                ELSE [ok |-> FALSE, list |-> <<>>])
          ELSE IF t[c + 1] = ","
               THEN ParseElems(t, c + 2, acc2)
               ELSE [ok |-> FALSE, list |-> <<>>]

\* JSON.parse of the grammar argument, a JSON list of phrases; ok is FALSE
\* where JSON.parse throws a SyntaxError
JsonParseList(t) ==
  IF Len(t) < 2 THEN [ok |-> FALSE, list |-> <<>>]
  ELSE IF t[1] # "[" THEN [ok |-> FALSE, list |-> <<>>]
  ELSE IF t[2] = "]" THEN [ok |-> Len(t) = 2, list |-> <<>>]
  ELSE ParseElems(t, 2, <<>>)

FieldNames(parsed) == {parsed.obj[i].name : i \in 1..Len(parsed.obj)}
\* the value of the (last) member called name
Field(parsed, name) ==
  LET idx == {i \in 1..Len(parsed.obj) : parsed.obj[i].name = name}
  IN parsed.obj[CHOOSE i \in idx : \A j \in idx : j <= i].value

\* ------------------------------------------------------------ environment
\* the URL paths clients ask for; only the first fragment decides the match
Paths == << <<"/transcript">>, <<"/transcript", "ions">>, <<"/other">> >>
Methods == <<"GET", "POST", "PUT">>
\* the directory given as --model, and the model name clients may ask for
ModelDirectory == <<"../models/", "small-en">>
OtherModelName == <<"big-en">>
SpeechFile == <<"sample.wav">>
GoodGrammar == <<"[", QUOTE, "yes", QUOTE, ",", QUOTE, "no", QUOTE, "]">>
BadGrammar == <<"[", "yes">>
PlainId == <<"42">>
QuotedId == <<"a", QUOTE, "b">>

\* path.basename(modelDirectory, '/')
Basename(t) == <<t[Len(t)]>>

\* what a client may give for each of the four query arguments
ModelArgs ==
  <<Absent, Param(<<>>), Param(Basename(ModelDirectory)), Param(OtherModelName)>>
SpeechArgs == <<Absent, Param(<<>>), Param(SpeechFile)>>
GrammarArgs == <<Absent, Param(<<>>), Param(GoodGrammar), Param(BadGrammar)>>
IdArgs == <<Absent, Param(<<>>), Param(PlainId), Param(QuotedId)>>

Query(method, url, model, speech, grammar, id) ==
  [method |-> method, url |-> url, model |-> model, speech |-> speech,
   grammar |-> grammar, id |-> id]

\* the requests of the concurrent specification: one for each way through
\* requestListener
CoreQueries ==
  << Query("GET", <<"/other">>, Absent, Absent, Absent, Absent),
    Query("PUT", <<"/transcript">>, Absent, Absent, Absent, Absent),
    Query("GET", <<"/transcript">>, Absent, Absent, Absent, Absent),
    Query("GET", <<"/transcript">>, Param(OtherModelName), Param(SpeechFile), Absent, Absent),
    Query("GET", <<"/transcript">>, Absent, Param(SpeechFile), Param(BadGrammar), Param(PlainId)),
    Query("GET", <<"/transcript">>, Absent, Param(SpeechFile), Absent, Absent),
    Query("POST", <<"/transcript">>, Param(OtherModelName), Absent, Absent, Absent),
    Query("POST", <<"/transcript">>, Absent, Absent, Param(BadGrammar), Param(PlainId)),
    Query("POST", <<"/transcript">>, Absent, Absent, Param(GoodGrammar), Param(PlainId)),
    Query("POST", <<"/transcript">>, Absent, Absent, Absent, Param(QuotedId)) >>

RECURSIVE UrlEncode(_)
\* a query value as the client writes it in the URL: the double quote and the
\* backslash are percent-encoded
UrlEncode(t) ==
  IF t = <<>> THEN <<>>
  ELSE (IF Head(t) = QUOTE THEN <<"%22">>
        ELSE IF Head(t) = BSLASH THEN <<"%5C">> ELSE <<Head(t)>>)
       \o UrlEncode(Tail(t))

\* one argument of the query string, with the separator sep before it
QueryArg(sep, name, p) ==
  IF p.present THEN <<sep, name, "=">> \o UrlEncode(p.v) ELSE <<>>

\* req.url: the path and the query string as the client sent them
ReqUrl(q) ==
  LET a1 == QueryArg("?", "model", q.model)
      a2 == QueryArg(IF a1 = <<>> THEN "?" ELSE "&", "speech", q.speech)
      a3 == QueryArg(IF a1 \o a2 = <<>> THEN "?" ELSE "&", "grammar", q.grammar)
      a4 == QueryArg(IF a1 \o a2 \o a3 = <<>> THEN "?" ELSE "&", "id", q.id)
  IN q.url \o a1 \o a2 \o a3 \o a4

\* the command lines: --model given or not, --debug given or not (a debug
\* level only sets the engine's own log level, which is not modelled)
ArgSets == [model : {Absent, Param(ModelDirectory)}, debug : {"unset", "flag"}]

\* the signals main sets shutdown as the handler of
Signals == {"SIGTERM", "SIGINT"}
\* an error thrown outside every try block, as `${err}` prints it
UncaughtErrors == { <<"Error: ", "listen EADDRINUSE">> }

\* what the engine (./voskjs, transcriptFromFile / transcriptFromBuffer)
\* resolves with: a latency and an engine-defined result object
Latency == Num(7)
PlainResult == << [key |-> "text", val |-> Str(<<"hello">>)] >>
OwnFieldsResult ==
  << [key |-> "text", val |-> Str(<<"hello">>)],
     [key |-> "id", val |-> Str(<<"engine">>)],
     [key |-> "latency", val |-> Num(0)] >>
EngineResults ==
  { [latency |-> Latency, result |-> PlainResult],
    [latency |-> Latency, result |-> OwnFieldsResult] }
\* what the engine rejects with, as `${error}` prints it
EngineErrors == { <<"Error: ", "engine failure">> }
\* what JSON.parse throws, as `${error}` prints it
SyntaxErrorText == <<"SyntaxError: ", "Unexpected token">>

\* ------------------------------------------------------------------ state
VARIABLES
  procState,       \* "Starting", "Loading", "Running", "Terminated"
  exitCode,        \* -1 while the process runs
  args,            \* the command line
  model,           \* the Vosk model handle: "none", "loaded", "freed"
  modelName,       \* the name clients may ask for
  debug,           \* internal debug flag
  activeRequests,  \* the diagnostic counter
  conn,            \* per request: handler locals, engine call, response
  effects          \* what main and shutdown did, in order: console lines,
                   \* loadModel, listen, freeModel, process.exit

vars == <<procState, exitCode, args, model, modelName, debug, activeRequests, conn,
          effects>>

NoGrammar == [defined |-> FALSE, phrases |-> <<>>]
NoCall == [model |-> "none", grammar |-> NoGrammar, fn |-> "none", path |-> <<>>,
           buffer |-> <<>>]
NoData == [latency |-> Num(0), result |-> <<>>]
NoRes == [contentType |-> "", statusCode |-> 200, writes |-> <<>>, body |-> <<>>]
NoQuery == Query("", <<>>, Absent, Absent, Absent, Absent)
\* a slot no request has arrived in
IdleConn ==
  [ id |-> Num(0),         \* const id
    body |-> <<>>,         \* let body = [] : the chunks pushed so far (while
                           \* the exchange lasts)
    phase |-> "idle",      \* idle, body, closed, engine, done
    req |-> NoQuery,       \* the request
    currentTime |-> 0,     \* const currentTime, where id is read from it
    sent |-> 0,            \* bytes the transport has delivered so far (while
                           \* the exchange lasts)
    call |-> NoCall,       \* the engine call in progress
    calls |-> 0,           \* engine invocations made for this request
    data |-> NoData,       \* what the engine resolved with
    res |-> NoRes,         \* the response object
    logs |-> <<>> ]        \* the console lines the handler of this request
                           \* wrote, in order

\* ------------------------------------------------------- response builder
ErrorBody(message) ==
  <<"{", QUOTE, "error", QUOTE, ":", QUOTE>> \o message \o <<QUOTE, "}">>

\* res.end(text): the first call sends the body, a later one sends nothing
ResEnd(res, text, kind) ==
  [res EXCEPT !.body = IF res.writes = <<>> THEN text ELSE @,
              !.writes = Append(@, kind)]

\* the line console.log prints after its timestamp
LogLine(text, type) == IF type = "" THEN text ELSE <<type, " ">> \o text

\* log(text, type) in a handler of the request of slot c
log(text, type, c) == [c EXCEPT !.logs = Append(@, LogLine(text, type))]

ResponseLine(requestId, json) ==
  <<"response ">> \o TemplateText(requestId) \o <<" ">> \o json

\* errorResponse(message, statusCode, res); c is the slot that holds res
errorResponse(message, statusCode, c) ==
  log(message, "ERROR",
      [c EXCEPT !.res = ResEnd([c.res EXCEPT !.statusCode = statusCode],
                               ErrorBody(message), "error")])

\* successResponse without its res.end(json)
successResponseNoEnd(requestId, json, c) == log(ResponseLine(requestId, json), "", c)

\* successResponse(requestId, json, res); c is the slot that holds res
successResponse(requestId, json, c) ==
  LET c1 == log(ResponseLine(requestId, json), "", c)
  IN [c1 EXCEPT !.res = ResEnd(@, json, "success")]

\* the handler has returned for good: its locals are gone
Finished(c) == [c EXCEPT !.phase = "done", !.call = NoCall, !.sent = 0, !.body = <<>>]

\* log(`request GET ${id} ...`) / log(`request POST ${id} speechBuffer ...`)
RequestLine(q, id) ==
  <<"request ", q.method, " ">> \o TemplateText(id) \o <<" ">>
  \o (IF q.method = "POST" THEN <<"speechBuffer">>
      ELSE IF q.speech.present THEN q.speech.v ELSE <<"undefined">>)
  \o <<" ">> \o (IF Truthy(q.model) THEN q.model.v ELSE <<>>)
  \o <<" ">> \o (IF Truthy(q.grammar) THEN q.grammar.v ELSE <<>>)

ActiveLine(n) == <<"active requests ", ToString(n)>>
LatencyLine(id, latency) ==
  <<"latency ">> \o TemplateText(id) \o <<" ">> \o TemplateText(latency) \o <<"ms">>

PathMessage(url) == <<"path not allowed ">> \o url
MethodMessage(method) == <<"method not allowed ", method>>
SpeechMessage(id) ==
  <<"id ">> \o TemplateText(id)
  \o <<" ", QUOTE, "speech", QUOTE, " attribute not found in the body request">>
\* `${model}` prints the handle object, not the requested name
ModelMessage(id) ==
  <<"id ">> \o TemplateText(id) \o <<" Vosk model ", "[object Object]", " unknown">>
TranscriptMessage(id, error) ==
  <<"id ">> \o TemplateText(id) \o <<" transcript function ">> \o error

\* ------------------------------------------------------- request handling
\* the path test with its sense reversed
PathAllowedInverted(url) == ~(Len(url) >= 1 /\ url[1] = "/transcript")

\* req.url.match(/^\/transcript/)
PathAllowed(url) == Len(url) >= 1 /\ url[1] = "/transcript"

\* the id taken from the query whenever the argument is there, empty or not
RequestIdPresent(requestedId, currentTime) ==
  IF requestedId.present THEN Str(requestedId.v) ELSE Num(currentTime)

\* const id = requestedId ? requestedId : currentTime
RequestId(requestedId, currentTime) ==
  IF Truthy(requestedId) THEN Str(requestedId.v) ELSE Num(currentTime)

\* if ( !requestedFilename )
SpeechMissing(requestedFilename) == ~Truthy(requestedFilename)

\* the model test with === for !==
ModelMismatchInverted(requestedModelName, name) ==
  Truthy(requestedModelName) /\ requestedModelName.v = name

\* if ( requestedModelName && (requestedModelName !== modelName) )
ModelMismatch(requestedModelName, name) ==
  Truthy(requestedModelName) /\ requestedModelName.v # name

\* the POST branch without the return of its model check
PostListensAlways(mismatch) == TRUE

\* the POST branch registers its 'data' and 'end' listeners only when the
\* model check has not returned
PostListens(mismatch) == ~mismatch

\* the grammar argument never handed on
GrammarOfDropped(requestedGrammar) == [ok |-> TRUE, grammar |-> NoGrammar]

\* const grammar = requestedGrammar ? JSON.parse(requestedGrammar) : undefined
\* ok is FALSE where JSON.parse throws
GrammarOf(requestedGrammar) ==
  IF Truthy(requestedGrammar)
  THEN LET p == JsonParseList(requestedGrammar.v)
       IN [ok |-> p.ok, grammar |-> [defined |-> p.ok, phrases |-> p.list]]
  ELSE [ok |-> TRUE, grammar |-> NoGrammar]

RECURSIVE BufferConcatReversed(_)
\* the chunks put together last one first
BufferConcatReversed(body) ==
  IF body = <<>> THEN <<>> ELSE BufferConcatReversed(Tail(body)) \o Head(body)

RECURSIVE BufferConcat(_)
\* Buffer.concat(body)
BufferConcat(body) ==
  IF body = <<>> THEN <<>> ELSE Head(body) \o BufferConcat(Tail(body))

RECURSIVE Spread(_, _)
\* { ...a, ...b }: a member of b replaces the member of a with its key, in
\* place, or is added at the end
Spread(a, b) ==
  IF b = <<>> THEN a
  ELSE LET m == Head(b)
           at == {i \in 1..Len(a) : a[i].key = m.key}
       IN Spread(IF at = {} THEN Append(a, m)
                 ELSE [i \in 1..Len(a) |-> IF i \in at THEN m ELSE a[i]],
                 Tail(b))

\* JSON.stringify({ ...{id}, ...{latency}, ...transcriptData.result })
ResponseJson(id, transcriptData) ==
  JsonStringify(Spread(Spread(<< [key |-> "id", val |-> id] >>,
                              << [key |-> "latency", val |-> transcriptData.latency] >>),
                       transcriptData.result))

\* the part of responseTranscriptGet / responseTranscriptPost before the
\* await: the counter, the grammar, the engine call; c is the request's slot
\* and active the counter, and the result holds both after the run
TranscriptStart(c, active, fn, path, buffer) ==
  LET g == GrammarOf(c.req.grammar)
      n == IF debug THEN active + 1 ELSE active
      c1 == IF debug THEN log(ActiveLine(n), "debug", c) ELSE c
  IN IF g.ok
     THEN [ c |-> [c1 EXCEPT !.phase = "engine",
                             !.call = [model |-> model, grammar |-> g.grammar,
                                       fn |-> fn, path |-> path, buffer |-> buffer],
                             !.calls = @ + 1],
            active |-> n ]
     ELSE [ c |-> Finished(errorResponse(TranscriptMessage(c.id, SyntaxErrorText),
                                         415, c1)),
            active |-> n ]

responseTranscriptGet(c, active) ==
  TranscriptStart(c, active, "transcriptFromFile", c.req.speech.v, <<>>)

responseTranscriptPost(c, active, buffer) ==
  TranscriptStart(c, active, "transcriptFromBuffer", <<>>, buffer)

\* the synchronous run of requestListener for request q arriving at time now
Listener(q, now, active) ==
  LET res0 == [NoRes EXCEPT !.contentType = "application/json"]
      c0 == [IdleConn EXCEPT !.req = q, !.res = res0]
      id == RequestId(q.id, now)
      c1 == log(RequestLine(q, id), "",
                [c0 EXCEPT !.currentTime = IF Truthy(q.id) THEN 0 ELSE now, !.id = id])
      done(c) == [c |-> Finished(c), active |-> active]
      mismatch == ModelMismatch(q.model, modelName)
  IN IF ~PathAllowed(ReqUrl(q))
     THEN done(errorResponse(PathMessage(ReqUrl(q)), 405, c0))
     ELSE IF q.method = "GET"
     THEN IF SpeechMissing(q.speech)
          THEN done(errorResponse(SpeechMessage(id), 405, c1))
          ELSE IF mismatch
          THEN done(errorResponse(ModelMessage(id), 404, c1))
          ELSE responseTranscriptGet(c1, active)
     ELSE IF q.method = "POST"
     THEN LET c2 == IF mismatch THEN errorResponse(ModelMessage(id), 404, c1) ELSE c1
          IN [c |-> [c2 EXCEPT !.phase = IF PostListens(mismatch) THEN "body" ELSE "done"],
              active |-> active]
     ELSE done(errorResponse(MethodMessage(q.method), 405, c0))

\* ---------------------------------------------------------------- actions
RECURSIVE IdleConns(_)
\* n slots no request has arrived in
IdleConns(n) == IF n = 0 THEN <<>> ELSE Append(IdleConns(n - 1), IdleConn)

Init ==
  /\ procState = "Starting"
  /\ exitCode = -1
  /\ args \in ArgSets
  /\ model = "none"
  /\ modelName = <<>>
  /\ debug = FALSE
  /\ activeRequests = 0
  /\ conn = IdleConns(NReq)
  /\ effects = <<>>

\* an entry of effects: a console line, or a call
EffLog(text) == [op |-> "log", line |-> text]
Eff(op) == [op |-> op, line |-> <<>>]

\* the lines main logs before it loads the model (those about the port and
\* the engine's log level, which are not modelled, left out)
MainLines(a) ==
  << EffLog(<<"Model path: ">> \o a.model.v),
     EffLog(<<"Model name: ">> \o Basename(a.model.v)),
     EffLog(<<"internal debug log: ", IF a.debug # "unset" THEN "true" ELSE "false">>),
     EffLog(<<"wait loading Vosk model: ">> \o Basename(a.model.v) \o <<" (be patient)">>) >>

\* main with a helpAndExit that ends in process.exit(0)
mainValidateArgsExitZero ==
  /\ procState = "Starting"
  /\ IF ~Truthy(args.model)
     THEN /\ procState' = "Terminated"
          /\ exitCode' = 0
          /\ effects' = effects \o <<Eff("usage"), Eff("exit")>>
          /\ UNCHANGED <<modelName, debug>>
     ELSE /\ procState' = "Loading"
          /\ modelName' = Basename(args.model.v)
          /\ debug' = (args.debug # "unset")
          /\ effects' = effects \o MainLines(args) \o <<Eff("loadModel")>>
          /\ UNCHANGED exitCode
  /\ UNCHANGED <<args, model, activeRequests, conn>>

\* main up to the await of loadModel: validateArgs (helpAndExit when --model
\* is missing), modelName, the debug flag
mainValidateArgs ==
  /\ procState = "Starting"
  /\ IF ~Truthy(args.model)
     THEN /\ procState' = "Terminated"
          /\ exitCode' = 1
          /\ effects' = effects \o <<Eff("usage"), Eff("exit")>>
          /\ UNCHANGED <<modelName, debug>>
     ELSE /\ procState' = "Loading"
          /\ modelName' = Basename(args.model.v)
          /\ debug' = (args.debug # "unset")
          /\ effects' = effects \o MainLines(args) \o <<Eff("loadModel")>>
          /\ UNCHANGED exitCode
  /\ UNCHANGED <<args, model, activeRequests, conn>>

\* main listening without waiting for loadModel
mainListensBeforeLoad ==
  /\ procState = "Loading"
  /\ procState' = "Running"
  /\ effects' = effects \o <<Eff("listen")>>
  /\ UNCHANGED <<exitCode, args, model, modelName, debug, activeRequests, conn>>

\* loadModel resolves: the server listens and the signal handlers are set
mainModelLoaded ==
  /\ procState = "Loading"
  /\ procState' = "Running"
  /\ model' = "loaded"
  /\ effects' = effects \o <<EffLog(<<"Vosk model loaded">>), Eff("listen")>>
  /\ UNCHANGED <<exitCode, args, modelName, debug, activeRequests, conn>>

\* loadModel rejects: main() rejects and nothing handles it; Node ends the
\* process, with a code that depends on its version
mainLoadFailed ==
  /\ procState = "Loading"
  /\ procState' = "Terminated"
  /\ exitCode' \in {0, 1}
  /\ UNCHANGED <<args, model, modelName, debug, activeRequests, conn, effects>>

\* a request arrives: requestListener runs to its first suspension point
\* (the slots are taken in the order the requests arrive in)
requestListener(r, q, now) ==
  /\ procState = "Running"
  /\ conn[r].phase = "idle"
  /\ \A s \in 1..(r - 1) : conn[s].phase # "idle"
  /\ LET out == Listener(q, now, activeRequests)
     IN /\ conn' = [conn EXCEPT ![r] = out.c]
        /\ activeRequests' = out.active
  /\ UNCHANGED <<procState, exitCode, args, model, modelName, debug, effects>>

\* the i-th byte of the body the client of request r sends
Byte(r, i) == <<r, i>>

RECURSIVE Bytes(_, _, _)
\* the bytes from the i-th to the j-th of the body of request r: a chunk
Bytes(r, i, j) == IF i > j THEN <<>> ELSE <<Byte(r, i)>> \o Bytes(r, i + 1, j)

\* a 'data' listener that is still called after 'end'
onDataAnyPhase(r, k) ==
  /\ procState = "Running"
  /\ conn[r].phase \in {"body", "engine"}
  /\ conn[r].sent + k <= MaxBody
  /\ LET chunk == Bytes(r, conn[r].sent + 1, conn[r].sent + k)
     IN conn' = [conn EXCEPT ![r].body = Append(@, chunk), ![r].sent = @ + k]
  /\ UNCHANGED <<procState, exitCode, args, model, modelName, debug, activeRequests,
                 effects>>

RECURSIVE PushToAll(_, _, _, _, _)
\* the slots cs with the chunk pushed to the body of each of the first n that
\* is receiving its body; r is the request the chunk belongs to
PushToAll(cs, r, k, chunk, n) ==
  IF n = 0 THEN cs
  ELSE LET rest == PushToAll(cs, r, k, chunk, n - 1)
       IN IF n = r
          THEN [rest EXCEPT ![n].body = Append(@, chunk), ![n].sent = @ + k]
          ELSE IF cs[n].phase = "body"
               THEN [rest EXCEPT ![n].body = Append(@, chunk)]
               ELSE rest

\* a 'data' listener that pushes to one body array all requests share
onDataShared(r, k) ==
  /\ procState = "Running"
  /\ conn[r].phase = "body"
  /\ conn[r].sent + k <= MaxBody
  /\ LET chunk == Bytes(r, conn[r].sent + 1, conn[r].sent + k)
     IN conn' = PushToAll(conn, r, k, chunk, NReq)
  /\ UNCHANGED <<procState, exitCode, args, model, modelName, debug, activeRequests,
                 effects>>

\* req.on('data'): the transport delivers the next k bytes of the body
onData(r, k) ==
  /\ procState = "Running"
  /\ conn[r].phase = "body"
  /\ conn[r].sent + k <= MaxBody
  /\ LET chunk == Bytes(r, conn[r].sent + 1, conn[r].sent + k)
     IN conn' = [conn EXCEPT ![r].body = Append(@, chunk), ![r].sent = @ + k]
  /\ UNCHANGED <<procState, exitCode, args, model, modelName, debug, activeRequests, effects>>

\* req.on('end'): the body is complete
onEnd(r) ==
  /\ procState = "Running"
  /\ conn[r].phase = "body"
  /\ LET speechAsBuffer == BufferConcat(conn[r].body)
         out == responseTranscriptPost(conn[r], activeRequests, speechAsBuffer)
     IN /\ conn' = [conn EXCEPT ![r] = out.c]
        /\ activeRequests' = out.active
  /\ UNCHANGED <<procState, exitCode, args, model, modelName, debug, effects>>

\* the body stream closes without 'end' (the client went away): no listener
\* of the handler hears of it
onClose(r) ==
  /\ procState = "Running"
  /\ conn[r].phase = "body"
  /\ conn' = [conn EXCEPT ![r].phase = "closed", ![r].body = <<>>]
  /\ UNCHANGED <<procState, exitCode, args, model, modelName, debug, activeRequests, effects>>

\* the engine promise resolves: the rest of the try block
transcriptResolved(r, transcriptData) ==
  /\ procState = "Running"
  /\ conn[r].phase = "engine"
  /\ activeRequests' = IF debug THEN activeRequests - 1 ELSE activeRequests
  /\ LET n == IF debug THEN activeRequests - 1 ELSE activeRequests
         c == conn[r]
         c1 == IF debug THEN log(ActiveLine(n), "debug", c) ELSE c
         latency == transcriptData.latency
         responseJson == ResponseJson(c.id, transcriptData)
         c2 == IF debug THEN log(LatencyLine(c.id, latency), "debug", c1) ELSE c1
         c3 == successResponse(c.id, responseJson, c2)
     IN conn' = [conn EXCEPT ![r] = [Finished(c3) EXCEPT !.data = transcriptData]]
  /\ UNCHANGED <<procState, exitCode, args, model, modelName, debug, effects>>

\* what shutdown with the model released after the completion line does
ShutdownEffectsLateFree(signal) ==
  << EffLog(<<signal, " received">>), EffLog(<<"Shutdown done">>),
     Eff("freeModel"), Eff("exit") >>

\* what shutdown(signal) does, in order
ShutdownEffects(signal) ==
  << EffLog(<<signal, " received">>), Eff("freeModel"),
     EffLog(<<"Shutdown done">>), Eff("exit") >>

\* shutdown(signal), run after the effects before
shutdownAfter(before, signal) ==
  /\ procState = "Running"
  /\ procState' = "Terminated"
  /\ model' = "freed"
  /\ exitCode' = 0
  /\ effects' = before \o ShutdownEffects(signal)
  /\ UNCHANGED <<args, modelName, debug, activeRequests, conn>>

\* shutdown that returns to the event loop: no process.exit
shutdownNoExit(signal) ==
  /\ procState = "Running"
  /\ model = "loaded"
  /\ model' = "freed"
  /\ effects' = effects \o SubSeq(ShutdownEffects(signal), 1, 3)
  /\ UNCHANGED <<procState, exitCode, args, modelName, debug, activeRequests, conn>>

\* function shutdown(signal), the handler of SIGTERM and SIGINT
shutdown(signal) == shutdownAfter(effects, signal)

\* process.on('uncaughtException', (err) => ...)
onUncaughtException(err) ==
  shutdownAfter(Append(effects,
                       EffLog(LogLine(<<"there was an uncaught error: ">> \o err, "FATAL"))),
                "uncaughtException")

\* the handler without its try/catch: the rejection is unhandled, Node raises
\* 'uncaughtException' and the process shuts down
responseTranscriptUncaught(r, error) ==
  /\ conn' = [conn EXCEPT ![r] = Finished(@)]
  /\ procState' = "Terminated"
  /\ model' = "freed"
  /\ exitCode' = 0
  /\ effects' = effects \o ShutdownEffects("uncaughtException")
  /\ UNCHANGED <<args, modelName, debug, activeRequests>>

\* catch (error) of responseTranscriptGet / responseTranscriptPost
responseTranscriptCatch(r, error) ==
  /\ conn' = [conn EXCEPT ![r] = Finished(errorResponse(
                                     TranscriptMessage(conn[r].id, error), 415, @))]
  /\ UNCHANGED <<procState, exitCode, args, model, modelName, debug, activeRequests, effects>>

\* the engine promise rejects
transcriptRejected(r, error) ==
  /\ procState = "Running"
  /\ conn[r].phase = "engine"
  /\ responseTranscriptCatch(r, error)

\* one of the core requests arrives in slot r
CoreRequest(r) ==
  /\ conn[r].phase = "idle"
  /\ procState = "Running"
  /\ \E q \in 1..Len(CoreQueries), now \in Times :
       requestListener(r, CoreQueries[q], now)

\* any request a client may send arrives in slot r: every method, path and
\* combination of the four query arguments
AnyRequest(r) ==
  /\ conn[r].phase = "idle"
  /\ procState = "Running"
  /\ \E m \in 1..Len(Methods), u \in 1..Len(Paths), a \in 1..Len(ModelArgs),
        s \in 1..Len(SpeechArgs), g \in 1..Len(GrammarArgs),
        i \in 1..Len(IdArgs), now \in Times :
       requestListener(r, Query(Methods[m], Paths[u], ModelArgs[a], SpeechArgs[s],
                                GrammarArgs[g], IdArgs[i]), now)

\* what the process does for the requests Rs once they have arrived, and what
\* it does without any
NextOver(Rs) ==
  \/ mainValidateArgs
  \/ mainModelLoaded
  \/ mainLoadFailed
  \/ \E r \in Rs, k \in 1..MaxBody : onData(r, k)
  \/ \E r \in Rs : onEnd(r)
  \/ \E r \in Rs : onClose(r)
  \/ \E r \in Rs, d \in EngineResults : transcriptResolved(r, d)
  \/ \E r \in Rs, e \in EngineErrors : transcriptRejected(r, e)
  \/ \E s \in Signals : shutdown(s)
  \/ \E e \in UncaughtErrors : onUncaughtException(e)

\* NReq clients, each sending one of the core requests, in any interleaving
Spec ==
  Init /\ [][(\E r \in Requests : CoreRequest(r)) \/ NextOver(Requests)]_vars

\* one client sending any request
SpecSingle == Init /\ [][AnyRequest(1) \/ NextOver({1})]_vars

\* the engine call of request r settles
EngineSettles(r) ==
  \/ \E d \in EngineResults : transcriptResolved(r, d)
  \/ \E e \in EngineErrors : transcriptRejected(r, e)

\* Spec with the engine settling every call and the transport ending every
\* body stream it has not closed
FairSpec ==
  /\ Spec
  /\ \A r \in Requests : WF_vars(EngineSettles(r)) /\ WF_vars(onEnd(r))

\* ----------------------------------------------------------------- claims
\* The claims speak of requests as clients send them, so they read the
\* request and the response, not the handler's own tests.
HasArg(p) == p.present /\ p.v # <<>>
OnTranscriptPath(q) == Len(q.url) >= 1 /\ q.url[1] = "/transcript"
AsksOtherModel(q) == HasArg(q.model) /\ q.model.v # modelName
Handled(c) == c.phase # "idle"
Answered(c, status, kind) ==
  c.phase = "done" /\ c.res.writes = <<kind>> /\ c.res.statusCode = status
\* the body has a member "error" holding a non-empty string
HasErrorField(body) ==
  LET p == JsonParseObject(body)
  IN /\ p.ok
     /\ <<"error">> \in FieldNames(p)
     /\ Field(p, <<"error">>).kind = "str"
     /\ Field(p, <<"error">>).text # <<>>

\* C1 as stated: every GET or POST request on the transcript path that asks
\* for a model other than the loaded one is answered 404 and never reaches
\* the engine, a GET without speech included.
C1_AsStated ==
  \A r \in Requests :
    LET c == conn[r]
    IN (Handled(c) /\ OnTranscriptPath(c.req) /\ c.req.method \in {"GET", "POST"}
        /\ AsksOtherModel(c.req))
       => (Answered(c, 404, "error") /\ c.calls = 0)

\* C1 as amended: every POST request, and every GET request that names a
\* speech file, on the transcript path and asking for a model other than the
\* loaded one, is answered 404 and never reaches the engine.
C1_ModelMismatch404 ==
  \A r \in Requests :
    LET c == conn[r]
    IN (Handled(c) /\ OnTranscriptPath(c.req) /\ c.req.method \in {"GET", "POST"}
        /\ AsksOtherModel(c.req)
        /\ (c.req.method = "GET" => HasArg(c.req.speech)))
       => (Answered(c, 404, "error") /\ c.calls = 0)

C1_Witness ==
  \E r \in Requests :
    LET c == conn[r]
    IN /\ c.req.method = "GET" /\ OnTranscriptPath(c.req)
       /\ HasArg(c.req.speech) /\ AsksOtherModel(c.req)
       /\ HasArg(c.req.grammar)
       /\ Answered(c, 404, "error") /\ c.calls = 0

\* C2 as stated: every GET request on the transcript path without a speech
\* argument is answered 405 with a body whose error field is a non-empty
\* string, and never reaches the engine.
C2_AsStated ==
  \A r \in Requests :
    LET c == conn[r]
    IN (Handled(c) /\ OnTranscriptPath(c.req) /\ c.req.method = "GET"
        /\ ~c.req.speech.present)
       => (Answered(c, 405, "error") /\ c.calls = 0 /\ HasErrorField(c.res.body))

\* C3: while the engine works on a POST request, the buffer it was given is
\* the bytes the transport delivered, in the order of delivery, and the
\* chunks of the request put end to end.
C3_BufferIsBody ==
  \A r \in Requests :
    LET c == conn[r]
    IN (c.phase = "engine" /\ c.req.method = "POST")
       => /\ c.call.fn = "transcriptFromBuffer"
          /\ c.call.buffer = Bytes(r, 1, c.sent)
          /\ Len(c.call.buffer) = c.sent
          /\ \A i \in 1..Len(c.body) : c.body[i] # <<>>

C3_Witness ==
  \E r \in Requests :
    LET c == conn[r]
    IN /\ c.phase = "engine" /\ c.req.method = "POST"
       /\ Len(c.body) = 2 /\ c.call.buffer = <<Byte(r, 1), Byte(r, 2)>>

C3_WitnessEmpty ==
  \E r \in Requests :
    LET c == conn[r]
    IN c.phase = "engine" /\ c.req.method = "POST" /\ c.body = <<>> /\ c.call.buffer = <<>>

\* what a client's JSON.parse makes of the response body of c
Parsed(c) == JsonParseObject(c.res.body)
HasOwnField(result, key) == \E i \in 1..Len(result) : result[i].key = key
\* the request passed the validation of its method's branch
PassedValidation(q) ==
  /\ OnTranscriptPath(q)
  /\ ~AsksOtherModel(q)
  /\ \/ q.method = "POST"
     \/ q.method = "GET" /\ HasArg(q.speech)
BadGrammarArg(q) == HasArg(q.grammar) /\ ~JsonParseList(q.grammar.v).ok
\* in this step the grammar of request r fails to parse, or its engine call
\* fails
FailsInStep(r) ==
  \/ /\ conn[r].phase = "engine"
     /\ conn'[r].phase # "engine"
     /\ conn'[r].data = NoData
  \/ /\ conn[r].phase = "idle"
     /\ conn'[r].phase # "idle"
     /\ conn'[r].req.method = "GET"
     /\ PassedValidation(conn'[r].req) /\ BadGrammarArg(conn'[r].req)
  \/ /\ conn[r].phase = "body"
     /\ conn'[r].phase \notin {"body", "closed"}
     /\ BadGrammarArg(conn[r].req)

\* C4: a step in which the grammar of a validated request fails to parse, or
\* its engine call fails, writes a 415 error response for that request and
\* nothing else: the process is still running, no other request's state
\* changes, and a request that was waiting for the engine still is.
C4_FailureIsLocal ==
  [][ \A r \in Requests :
        FailsInStep(r)
        => /\ Answered(conn'[r], 415, "error")
           /\ procState' = "Running" /\ model' = "loaded" /\ exitCode' = -1
           /\ \A o \in Requests \ {r} : conn'[o] = conn[o] ]_vars

C4_Witness ==
  \E r, o \in Requests :
    /\ r # o
    /\ Answered(conn[r], 415, "error") /\ conn[r].calls = 1
    /\ conn[o].phase = "done" /\ conn[o].res.writes = <<"success">>
    /\ procState = "Running"

\* C5 as stated, read in its favour for the results that hold no id of their
\* own: the id of a successful response is the id argument whenever the query
\* has one, empty or not, and else the timestamp taken when the request
\* arrived.
C5_AsStated ==
  \A r \in Requests :
    LET c == conn[r]
    IN (c.phase = "done" /\ c.res.writes = <<"success">>
        /\ ~HasOwnField(c.data.result, "id"))
       => /\ Parsed(c).ok
          /\ <<"id">> \in FieldNames(Parsed(c))
          /\ Field(Parsed(c), <<"id">>) =
               IF c.req.id.present THEN Str(c.req.id.v) ELSE Num(c.currentTime)

\* C5 as amended: when the engine's result has no id field of its own, the
\* id of a successful response is the id argument if the query has a
\* non-empty one, and the timestamp taken when the request arrived if the
\* argument is missing or empty.
C5_IdEchoed ==
  \A r \in Requests :
    LET c == conn[r]
    IN (c.phase = "done" /\ c.res.writes = <<"success">>
        /\ ~HasOwnField(c.data.result, "id"))
       => /\ Parsed(c).ok
          /\ <<"id">> \in FieldNames(Parsed(c))
          /\ Field(Parsed(c), <<"id">>) =
               IF HasArg(c.req.id) THEN Str(c.req.id.v) ELSE Num(c.currentTime)
          /\ ~HasArg(c.req.id) => c.currentTime \in Times

C5_Witness ==
  \E r \in Requests :
    LET c == conn[r]
    IN /\ c.phase = "done" /\ c.res.writes = <<"success">>
       /\ c.req.id = Param(QuotedId)
       /\ ~HasOwnField(c.data.result, "id")
       /\ Field(Parsed(c), <<"id">>) = Str(QuotedId)

\* a result with an id field of its own replaces the request's id
C5_OwnIdWins ==
  \E r \in Requests :
    LET c == conn[r]
    IN /\ c.phase = "done" /\ c.res.writes = <<"success">>
       /\ c.req.id = Param(PlainId)
       /\ Field(Parsed(c), <<"id">>) = Str(<<"engine">>)

C5_WitnessTimestamp ==
  \E r \in Requests :
    LET c == conn[r]
    IN /\ c.phase = "done" /\ c.res.writes = <<"success">>
       /\ c.req.id = Param(<<>>) /\ c.currentTime = 2
       /\ Field(Parsed(c), <<"id">>) = Num(2)

\* the grammar the engine must be given for query q
ExpectedGrammar(q) ==
  IF HasArg(q.grammar)
  THEN [defined |-> TRUE, phrases |-> JsonParseList(q.grammar.v).list]
  ELSE NoGrammar
\* what C6 asks of a GET request c that passed validation
C6_Outcome(c) ==
  /\ c.calls = 1
  /\ c.phase \in {"engine", "done"}
  /\ c.phase = "engine"
     => c.call = [model |-> "loaded", grammar |-> ExpectedGrammar(c.req),
                  fn |-> "transcriptFromFile", path |-> c.req.speech.v,
                  buffer |-> <<>>]
  /\ (c.phase = "done" /\ c.data # NoData)
     => /\ Answered(c, 200, "success")
        /\ Parsed(c).ok
        /\ <<"id">> \in FieldNames(Parsed(c))
        /\ <<"latency">> \in FieldNames(Parsed(c))
        /\ ~HasOwnField(c.data.result, "latency")
           => Field(Parsed(c), <<"latency">>) = c.data.latency
        /\ \A i \in 1..Len(c.data.result) :
             /\ <<c.data.result[i].key>> \in FieldNames(Parsed(c))
             /\ Field(Parsed(c), <<c.data.result[i].key>>) = c.data.result[i].val

\* C6 as stated: every GET request with a speech argument and with no model
\* argument or the loaded model's name reaches the engine exactly once, with
\* the file path, the loaded model and the parsed grammar, and a returned
\* call is answered 200 with id, latency and the result's fields.
C6_AsStated ==
  \A r \in Requests :
    LET c == conn[r]
    IN (Handled(c) /\ OnTranscriptPath(c.req) /\ c.req.method = "GET"
        /\ HasArg(c.req.speech)
        /\ (~c.req.model.present \/ c.req.model.v = modelName))
       => C6_Outcome(c)

\* C6 as amended: the same, for the requests whose grammar argument is
\* missing, empty or a well-formed JSON list (and with the latency of the
\* engine, unless the result has a latency field of its own).
C6_GetReachesEngine ==
  \A r \in Requests :
    LET c == conn[r]
    IN (Handled(c) /\ OnTranscriptPath(c.req) /\ c.req.method = "GET"
        /\ HasArg(c.req.speech)
        /\ (~c.req.model.present \/ c.req.model.v = modelName)
        /\ ~BadGrammarArg(c.req))
       => C6_Outcome(c)

C6_Witness ==
  \E r \in Requests :
    LET c == conn[r]
    IN /\ c.req.method = "GET" /\ c.req.grammar = Param(GoodGrammar)
       /\ c.req.model = Param(modelName)
       /\ Answered(c, 200, "success") /\ c.calls = 1
       /\ Field(Parsed(c), <<"latency">>) = Latency
       /\ Field(Parsed(c), <<"text">>) = Str(<<"hello">>)

C6_WitnessCall ==
  \E r \in Requests :
    LET c == conn[r]
    IN /\ c.phase = "engine" /\ c.req.method = "GET"
       /\ c.call.grammar = [defined |-> TRUE, phrases |-> << <<"yes">>, <<"no">> >>]

\* C7: no request is answered twice, a request is done exactly when it has
\* been answered, and the status of the answer is the one of a condition that
\* holds of the request: 405 for a path or method that is not served or a
\* GET without speech, 404 for another model's name, 415 for a grammar that
\* does not parse or an engine call that failed, 200 for a call that
\* returned.
C7_OneAnswer ==
  \A r \in Requests :
    LET c == conn[r]
        q == c.req
    IN /\ Len(c.res.writes) <= 1
       /\ (c.phase = "done") <=> (Len(c.res.writes) = 1)
       /\ c.calls <= 1
       /\ c.res.writes = <<"error">>
          => /\ c.res.statusCode \in {404, 405, 415}
             /\ c.res.statusCode = 405
                => \/ ~OnTranscriptPath(q)
                   \/ q.method \notin {"GET", "POST"}
                   \/ q.method = "GET" /\ ~HasArg(q.speech)
             /\ c.res.statusCode = 404 => (AsksOtherModel(q) /\ c.calls = 0)
             /\ c.res.statusCode = 415
                => /\ PassedValidation(q)
                   /\ \/ BadGrammarArg(q) /\ c.calls = 0
                      \/ c.calls = 1 /\ c.data = NoData
       /\ c.res.writes = <<"success">>
          => /\ c.res.statusCode = 200
             /\ PassedValidation(q) /\ c.calls = 1 /\ c.data # NoData
       /\ c.res.writes = <<>> => c.res.statusCode = 200

C7_Witness ==
  \E r, o \in Requests :
    /\ conn[r].req.method = "POST" /\ Answered(conn[r], 404, "error")
    /\ conn[o].req.method = "POST" /\ Answered(conn[o], 200, "success")

Responded(r) == conn[r].res.writes # <<>>

\* C8 as stated: while the process runs, every request that has arrived is
\* answered in the end, whatever its body stream does.
C8_AsStated ==
  \A r \in Requests :
    Handled(conn[r]) ~> (Responded(r) \/ procState # "Running")

\* C8 as amended: while the process runs, every request that has arrived is
\* answered in the end, unless its body stream closes without end-of-stream.
C8_AnsweredUnlessClosed ==
  \A r \in Requests :
    Handled(conn[r])
      ~> (Responded(r) \/ procState # "Running" \/ conn[r].phase = "closed")

C8_Witness ==
  \E r, o \in Requests :
    /\ conn[r].req.method = "POST" /\ Answered(conn[r], 200, "success")
    /\ conn[o].phase = "closed" /\ conn[o].res.writes = <<>>
    /\ procState = "Running"

\* C9 as stated: every request for a path other than /transcript is answered
\* 405 without reaching the engine, and so is every request for /transcript
\* with a method other than GET and POST.
C9_AsStated ==
  \A r \in Requests :
    LET c == conn[r]
    IN Handled(c)
       => /\ c.req.url # <<"/transcript">>
             => (Answered(c, 405, "error") /\ c.calls = 0)
          /\ (c.req.url = <<"/transcript">> /\ c.req.method \notin {"GET", "POST"})
             => (Answered(c, 405, "error") /\ c.calls = 0)

\* C9 as amended: every request whose URL does not begin with /transcript is
\* answered 405 with the path message, whatever its method and before any
\* query argument is read, without reaching the engine; every request whose
\* URL begins with /transcript and whose method is neither GET nor POST is
\* answered 405 without reaching the engine.
C9_NotServed405 ==
  \A r \in Requests :
    LET c == conn[r]
    IN Handled(c)
       => /\ ~OnTranscriptPath(c.req)
             => /\ Answered(c, 405, "error") /\ c.calls = 0
                /\ Parsed(c).ok
                /\ Field(Parsed(c), <<"error">>)
                     = Str(<<"path not allowed ">> \o ReqUrl(c.req))
                /\ c.id = IdleConn.id /\ c.currentTime = 0
          /\ (OnTranscriptPath(c.req) /\ c.req.method \notin {"GET", "POST"})
             => /\ Answered(c, 405, "error") /\ c.calls = 0
                /\ Parsed(c).ok
                /\ Field(Parsed(c), <<"error">>) = Str(<<"method not allowed ", c.req.method>>)

C9_Witness ==
  \E r \in Requests :
    LET c == conn[r]
    IN /\ c.req.url = <<"/other">> /\ c.req.method = "POST"
       /\ HasArg(c.req.speech) /\ HasArg(c.req.id)
       /\ Answered(c, 405, "error") /\ c.calls = 0

C9_WitnessMethod ==
  \E r \in Requests :
    LET c == conn[r]
    IN /\ c.req.url = <<"/transcript", "ions">> /\ c.req.method = "PUT"
       /\ Answered(c, 405, "error") /\ c.calls = 0

\* C10 as stated: every response has Content-Type JSON and a body that is
\* well-formed JSON; the body of an error response is an object with the one
\* member error, a string, and its status is 404, 405 or 415.
C10_AsStated ==
  \A r \in Requests :
    LET c == conn[r]
    IN c.res.writes # <<>>
       => /\ c.res.contentType = "application/json"
          /\ Parsed(c).ok
          /\ c.res.writes[1] = "error"
             => /\ Len(Parsed(c).obj) = 1
                /\ Parsed(c).obj[1].name = <<"error">>
                /\ Parsed(c).obj[1].value.kind = "str"
                /\ c.res.statusCode \in {404, 405, 415}

\* every request that has arrived has completed, and one at least has arrived
AllCompleted ==
  /\ \A r \in Requests : conn[r].phase \in {"idle", "done"}
  /\ \E r \in Requests : conn[r].phase = "done"

\* C11 as stated: with debug on, whenever all the requests that arrived have
\* completed, by a success, an engine failure or a grammar that does not
\* parse, activeRequests is 0 again.
C11_AsStated == (debug /\ AllCompleted) => activeRequests = 0

\* the triggers shutdown may log
Triggers == Signals \cup {"uncaughtException"}
EffectsAt(op) == {i \in 1..Len(effects) : effects[i].op = op}
\* the places of effects where shutdown logs its trigger
ReceivedAt ==
  {i \in 1..Len(effects) : \E t \in Triggers : effects[i] = EffLog(<<t, " received">>)}

\* C12: once a shutdown trigger has been logged the process is Terminated,
\* that trigger is the only one logged, and the effects end with, in this
\* order, the log of the trigger, the release of the model, the log of
\* completion and the exit; over the whole life of the process the model is
\* released at most once, and exactly when a shutdown has run.
C12_ShutdownSequence ==
  /\ Cardinality(EffectsAt("freeModel")) <= 1
  /\ (model = "freed") <=> (EffectsAt("freeModel") # {})
  /\ (EffectsAt("freeModel") # {}) <=> (ReceivedAt # {})
  /\ ReceivedAt # {}
     => /\ procState = "Terminated"
        /\ Cardinality(ReceivedAt) = 1
        /\ \A i \in ReceivedAt :
             /\ Len(effects) = i + 3
             /\ effects[i + 1] = Eff("freeModel")
             /\ effects[i + 2] = EffLog(<<"Shutdown done">>)
             /\ effects[i + 3] = Eff("exit")
             /\ \E j \in 1..(i - 1) : effects[j] = Eff("listen")

C12_Witness ==
  /\ procState = "Terminated"
  /\ EffLog(<<"SIGINT", " received">>) \in {effects[i] : i \in 1..Len(effects)}
  /\ \E r, o \in Requests : conn[r].phase = "engine" /\ conn[o].phase = "body"

C12_WitnessNoRequest ==
  /\ procState = "Terminated"
  /\ EffLog(<<"uncaughtException", " received">>) \in {effects[i] : i \in 1..Len(effects)}
  /\ \A r \in Requests : conn[r].phase = "idle"

\* C13: no step starts in Terminated, so after shutdown no request is
\* admitted, no chunk is buffered, no engine call starts or settles and no
\* response is written; a step in which shutdown runs ends in Terminated and
\* changes no request; Running is entered from Loading only; and while the
\* process runs shutdown can run at once, whatever the requests in flight.
C13_ShutdownIsTerminal ==
  /\ [](procState = "Running" => \A s \in Signals : ENABLED shutdown(s))
  /\ [][ /\ procState # "Terminated"
         /\ (procState = "Running" /\ effects' # effects)
            => /\ procState' = "Terminated"
               /\ conn' = conn
               /\ activeRequests' = activeRequests
         /\ (procState' = "Running" /\ procState # "Running")
            => procState = "Loading" ]_vars

C13_Witness ==
  /\ procState = "Terminated"
  /\ model = "freed"
  /\ \E r, o \in Requests :
       /\ conn[r].phase = "engine" /\ conn[r].res.writes = <<>>
       /\ conn[o].phase = "body" /\ conn[o].body # <<>> /\ conn[o].res.writes = <<>>

\* C14: the process exits with code 1 when --model is missing, and then the
\* model was never loaded, the server never listened and no request was
\* handled; it exits with code 0 whenever shutdown has run, for SIGTERM, for
\* SIGINT and for an uncaught exception; and it has no exit code while it runs.
C14_ExitCodes ==
  /\ ~args.model.present
     => /\ procState \in {"Starting", "Terminated"}
        /\ procState = "Terminated" => exitCode = 1
        /\ model = "none"
        /\ EffectsAt("loadModel") = {} /\ EffectsAt("listen") = {}
        /\ \A r \in Requests : conn[r].phase = "idle"
  /\ \A t \in Triggers :
       EffLog(<<t, " received">>) \in {effects[i] : i \in 1..Len(effects)}
       => (procState = "Terminated" /\ exitCode = 0)
  /\ (procState # "Terminated") <=> (exitCode = -1)
  /\ exitCode = 1 => EffectsAt("freeModel") = {}

C14_Witness ==
  /\ ~args.model.present
  /\ procState = "Terminated"
  /\ exitCode = 1
  /\ effects = <<Eff("usage"), Eff("exit")>>

C14_WitnessUncaught ==
  /\ procState = "Terminated"
  /\ exitCode = 0
  /\ \E i \in 1..Len(effects) : effects[i].op = "log" /\ effects[i].line[1] = "FATAL"

\* C15: the server listens only after the one loadModel call has resolved:
\* while the process runs the model is loaded, every request that was handled
\* was handled by a listening server with a model, every engine call is given
\* the loaded model, the model is loaded at most once, and a process whose
\* load failed never listened and never handled a request.
C15_LoadBeforeListen ==
  /\ Cardinality(EffectsAt("loadModel")) <= 1
  /\ Cardinality(EffectsAt("listen")) <= 1
  /\ procState = "Running" => (model = "loaded" /\ EffectsAt("listen") # {})
  /\ \A i \in EffectsAt("listen") :
       /\ i >= 3
       /\ effects[i - 1] = EffLog(<<"Vosk model loaded">>)
       /\ effects[i - 2] = Eff("loadModel")
       /\ model \in {"loaded", "freed"}
  /\ \A r \in Requests :
       Handled(conn[r])
       => /\ EffectsAt("listen") # {}
          /\ model \in {"loaded", "freed"}
          /\ conn[r].phase = "engine" => conn[r].call.model = "loaded"
  /\ (procState = "Terminated" /\ model = "none")
     => /\ EffectsAt("listen") = {}
        /\ \A r \in Requests : conn[r].phase = "idle"

C15_Witness ==
  /\ procState = "Running"
  /\ \E r \in Requests : conn[r].phase = "engine" /\ conn[r].call.model = "loaded"
  /\ \E i \in EffectsAt("listen") : effects[i - 2] = Eff("loadModel")

C15_WitnessLoadFailed ==
  /\ procState = "Terminated"
  /\ args.model.present
  /\ model = "none"
  /\ EffectsAt("loadModel") # {}

\* a POST request on the transcript path that asks for another model
PostMismatch(c) ==
  /\ Handled(c) /\ c.req.method = "POST" /\ OnTranscriptPath(c.req)
  /\ AsksOtherModel(c.req)

\* C16: a POST request that asks for a model other than the loaded one is
\* answered 404 in the step it arrives in, with no body listener set: nothing
\* of its body is ever buffered, the engine is never called for it, and no
\* later step changes anything of the request, so it gets no second response.
C16_MismatchBeforeBody ==
  [][ \A r \in Requests :
        PostMismatch(conn'[r])
        => /\ Answered(conn'[r], 404, "error")
           /\ conn'[r].body = <<>> /\ conn'[r].sent = 0
           /\ conn'[r].calls = 0 /\ conn'[r].call = NoCall
           /\ Handled(conn[r]) => conn'[r] = conn[r] ]_vars

C16_Witness ==
  \E r, o \in Requests :
    /\ PostMismatch(conn[r])
    /\ Answered(conn[r], 404, "error") /\ conn[r].calls = 0
    /\ conn[o].req.method = "POST" /\ conn[o].phase = "body" /\ conn[o].sent = MaxBody
    /\ r < o

\* the steps a request may take, one after the other
PhaseOrder(from, to) ==
  \/ from = "idle" /\ (to = "body" \/ to = "engine" \/ to = "done")
  \/ from = "body" /\ (to = "closed" \/ to = "engine" \/ to = "done")
  \/ from = "engine" /\ to = "done"

\* C17: in every step, for every request: its phase moves forward only
\* (validate, accumulate, invoke, respond); the engine is called at most once;
\* for a POST request it is called in the step of end-of-stream only, with all
\* the chunks received so far; no chunk is appended once the body has ended;
\* and the response of a request whose engine was called is written in the
\* step in which the call returns or fails, and not before.
C17_StepsInOrder ==
  [][ \A r \in Requests :
        LET c == conn[r]
            d == conn'[r]
        IN /\ d.phase # c.phase => PhaseOrder(c.phase, d.phase)
           /\ d.calls \in {c.calls, c.calls + 1} /\ d.calls <= 1
           /\ (d.calls > c.calls /\ d.req.method = "POST")
              => /\ c.phase = "body" /\ d.phase = "engine"
                 /\ d.body = c.body /\ d.sent = c.sent
                 /\ d.call.buffer = Bytes(r, 1, c.sent)
           /\ (d.calls > c.calls /\ d.req.method = "GET")
              => (c.phase = "idle" /\ d.phase = "engine")
           /\ c.phase \in {"engine", "closed", "done"}
              => (d.body \in {c.body, <<>>} /\ d.sent \in {c.sent, 0})
           /\ d.phase = "engine" => (d.res.writes = <<>> /\ d.calls = 1)
           /\ (c.res.writes = <<>> /\ d.res.writes # <<>> /\ d.calls = 1)
              => (c.phase = "engine" /\ c.calls = 1 /\ d.phase = "done" /\ d.call = NoCall)
           /\ c.res.writes # <<>> => d = c ]_vars

C17_Witness ==
  \E r \in Requests :
    LET c == conn[r]
    IN /\ c.req.method = "POST" /\ Answered(c, 200, "success") /\ c.calls = 1
       /\ debug /\ Len(c.logs) = 5
       /\ c.logs[5][1] = "response "

\* the text t occurs in the line
Contains(line, t) ==
  \E i \in 1..(Len(line) - Len(t) + 1) : SubSeq(line, i, i + Len(t) - 1) = t
\* the console lines of request c that log an envelope: the ERROR lines and
\* the response line
EnvelopeLines(c) ==
  {i \in 1..Len(c.logs) : c.logs[i][1] \in {"ERROR", "response "}}

\* C18 as stated: every request that was answered, on whatever exit path, has
\* a correlation id and exactly one console line for its envelope, and that
\* line contains the id.
C18_AsStated ==
  \A r \in Requests :
    LET c == conn[r]
    IN c.res.writes # <<>>
       => /\ Cardinality(EnvelopeLines(c)) = 1
          /\ c.id # IdleConn.id
          /\ \A i \in EnvelopeLines(c) : Contains(c.logs[i], TemplateText(c.id))

\* C19 as stated: with debug on, activeRequests is the number of requests
\* whose engine call has started and has not yet returned or failed; with
\* debug off it stays 0.
C19_AsStated ==
  /\ debug => activeRequests = Cardinality({r \in Requests : conn[r].phase = "engine"})
  /\ ~debug => activeRequests = 0

\* the text of a JSON scalar as a client reads it back
FieldOf(c, key) == Field(Parsed(c), <<key>>)

\* C20: in every step at most one request changes; the chunks a POST request
\* has buffered, and the buffer its engine call is given, are the bytes of
\* its own body, in order, and nothing else; and a successful response has
\* the id of its own request and every field of the result the engine gave
\* for its own call (the id excepted when that result has an id of its own).
C20_Isolated ==
  /\ [][ \A r, o \in Requests :
           r # o => (conn'[r] = conn[r] \/ conn'[o] = conn[o]) ]_vars
  /\ [](\A r \in Requests :
          LET c == conn[r]
          IN /\ c.phase \in {"body", "engine"}
                => /\ BufferConcat(c.body) = Bytes(r, 1, c.sent)
                   /\ c.phase = "engine" /\ c.req.method = "POST"
                      => c.call.buffer = Bytes(r, 1, c.sent)
             /\ (c.phase = "done" /\ c.res.writes = <<"success">>)
                => /\ Parsed(c).ok
                   /\ ~HasOwnField(c.data.result, "id")
                      => FieldOf(c, "id") =
                           (IF HasArg(c.req.id) THEN Str(c.req.id.v)
                            ELSE Num(c.currentTime))
                   /\ \A i \in 1..Len(c.data.result) :
                        FieldOf(c, c.data.result[i].key) = c.data.result[i].val
                   /\ Len(Parsed(c).obj)
                        = Cardinality({"id", "latency"}
                                      \cup {c.data.result[i].key : i \in 1..Len(c.data.result)}))

C20_Witness ==
  \E r, o \in Requests :
    /\ r # o
    /\ conn[r].req.method = "POST" /\ conn[o].req.method = "POST"
    /\ Answered(conn[r], 200, "success") /\ Answered(conn[o], 200, "success")
    /\ FieldOf(conn[r], "id") = Str(PlainId)
    /\ conn[o].req.id = Param(QuotedId) /\ FieldOf(conn[o], "id") = Str(<<"engine">>)
    /\ conn[r].data.result = PlainResult
    /\ conn[o].data.result = OwnFieldsResult
    /\ FieldOf(conn[o], "latency") = Num(0)

C20_WitnessInterleaved ==
  \E r, o \in Requests :
    /\ r # o
    /\ conn[r].phase = "body" /\ conn[o].phase = "body"
    /\ conn[r].body = << <<Byte(r, 1)>>, <<Byte(r, 2)>> >>
    /\ conn[o].body = << <<Byte(o, 1)>>, <<Byte(o, 2)>> >>

====
